---- MODULE Spec2Model ----
(***************************************************************************)
(* Model of deepagents' context compression (compression.py) and of the    *)
(* hook combinator chain_hooks (graph.py).                                  *)
(*                                                                         *)
(* The specifications share the variables:                                 *)
(*   SpecFiles  the pure function _compress_files, applied once and twice  *)
(*   SpecChain  chain_hooks.combined_hook, one loop iteration per step     *)
(*   Spec       compression_hook called by a host that applies its patches *)
(*   SpecTrim   Spec over every start_on / end_on boundary                 *)
(*   SpecAgent  create_deep_agent assembling the hooks, then a post call   *)
(***************************************************************************)
EXTENDS Integers, Sequences, FiniteSets, TLC

VARIABLES
    fcfg,       \* SpecFiles: the CompressionConfig field max_file_size in use
    fin,        \* SpecFiles: the files argument of _compress_files
    fout,       \* SpecFiles: _compress_files(fin, cfg)
    fout2,      \* SpecFiles: _compress_files(fout, cfg)
    fpc,        \* SpecFiles: "in", "once", "twice"
    hooks,      \* SpecChain: the list passed to chain_hooks
    cstate0,    \* SpecChain: the state combined_hook was called with
    cstate,     \* SpecChain: combined_hook's local `state`
    updates,    \* SpecChain: combined_hook's local `updates`
    ci,         \* SpecChain: position of the for loop (next hook to call)
    seen,       \* SpecChain: per call made, the hook's position and its argument
    results,    \* SpecChain: per call made, what the hook returned
    cret,       \* SpecChain: combined_hook's return value
    cpc,        \* SpecChain: "idle", "loop", "done"
    cfg,        \* Spec: the CompressionConfig the hook was created with
    hstate,     \* Spec: the host state handed to compression_hook
    hfault,     \* Spec: what failed inside the last call ("none" if nothing)
    hout,       \* Spec: the last call's outcome: [raised, ret, trimmed, kept]
    calls,      \* Spec: number of calls of compression_hook so far
    hpc,        \* Spec: "idle", "ready", "returned", "raised"
    aargs,      \* SpecAgent: create_deep_agent's hook-related arguments
    post_hooks, \* SpecAgent: create_deep_agent's local `post_hooks`
    pre_model_hook,           \* SpecAgent: create_react_agent's pre_model_hook
    selected_post_model_hook, \* SpecAgent: create_react_agent's post_model_hook
    apc         \* SpecAgent: "idle", "args", "built", "running"

fileVars == <<fcfg, fin, fout, fout2, fpc>>

chainVars == <<hooks, cstate0, cstate, updates, ci, seen, results, cret, cpc>>

hookVars == <<cfg, hstate, hfault, hout, calls, hpc>>

agentVars == <<aargs, post_hooks, pre_model_hook, selected_post_model_hook, apc>>

vars == <<fcfg, fin, fout, fout2, fpc,
          hooks, cstate0, cstate, updates, ci, seen, results, cret, cpc,
          cfg, hstate, hfault, hout, calls, hpc,
          aargs, post_hooks, pre_model_hook, selected_post_model_hook, apc>>

-----------------------------------------------------------------------------
(* Bounds of the model.                                                    *)

\* longest file content drawn as an input
MaxContentLen == 4
\* largest max_file_size drawn as an input
MaxFileSize == 4
\* longest list of hooks passed to chain_hooks
MaxHooks == 3
\* longest conversation drawn as an input
MaxMsgs == 3
\* most calls of compression_hook in one behaviour
MaxCalls == 2

-----------------------------------------------------------------------------
(* Generic helpers: Python values.                                         *)

Min(a, b) == IF a < b THEN a ELSE b

Max(a, b) == IF a > b THEN a ELSE b

\* A Python dict: a function whose DOMAIN is its key set.
EmptyMap == [k \in {} |-> 0]

\* {**l, **r} and dict.update: r's entries override l's.
Overlay(l, r) ==
    [k \in (DOMAIN l) \cup (DOMAIN r) |-> IF k \in DOMAIN r THEN r[k] ELSE l[k]]

\* Optional[dict]: None, or a dict.
None == [isNone |-> TRUE, val |-> EmptyMap]

Some(d) == [isNone |-> FALSE, val |-> d]

\* Python truthiness of an Optional[dict]: None and {} are falsy.
Truthy(r) == ~r.isNone /\ DOMAIN r.val # {}

\* s[:k] for k >= 0
SliceTo(s, k) == SubSeq(s, 1, Min(k, Len(s)))

\* s[-k:] for k >= 0; -0 is 0, so s[-0:] is s[0:], the whole sequence
SliceFromNeg(s, k) ==
    IF k = 0 THEN s ELSE SubSeq(s, Len(s) - Min(k, Len(s)) + 1, Len(s))

\* all sequences over S of length 0..n
RECURSIVE SeqsUpTo(_, _)
SeqsUpTo(S, n) ==
    IF n = 0 THEN {<<>>}
    ELSE LET shorter == SeqsUpTo(S, n - 1)
         IN  shorter \cup {Append(s, c) : s \in {t \in shorter : Len(t) = n - 1}, c \in S}

-----------------------------------------------------------------------------
(* _compress_files: text is a sequence of one-character strings.           *)

DigitChar == <<"0", "1", "2", "3", "4", "5", "6", "7", "8", "9">>

\* str(n) of the f-string, n >= 0
RECURSIVE Decimal(_)
Decimal(n) ==
    IF n < 10 THEN <<DigitChar[n + 1]>>
    ELSE Decimal(n \div 10) \o <<DigitChar[(n % 10) + 1]>>

\* "\n\n[... Content truncated - "
NoticeHead ==
    <<"\n", "\n", "[", ".", ".", ".", " ",
      "C", "o", "n", "t", "e", "n", "t", " ",
      "t", "r", "u", "n", "c", "a", "t", "e", "d", " ", "-", " ">>

\* " characters omitted ...]\n\n"
NoticeTail ==
    <<" ", "c", "h", "a", "r", "a", "c", "t", "e", "r", "s", " ",
      "o", "m", "i", "t", "t", "e", "d", " ", ".", ".", ".", "]", "\n", "\n">>

TruncationNotice(omitted) == NoticeHead \o Decimal(omitted) \o NoticeTail

keep_size(max_file_size) == max_file_size \div 3

TruncatedContent(content, max_file_size) ==
    LET k == keep_size(max_file_size)
    IN  SliceTo(content, k)
        \o TruncationNotice(Len(content) - 2 * k)
        \o SliceFromNeg(content, k)

ExceedsLimit(content, max_file_size) == Len(content) > max_file_size

CompressOne(content, max_file_size) ==
    IF ExceedsLimit(content, max_file_size)
    THEN TruncatedContent(content, max_file_size)
    ELSE content

_compress_files(files, max_file_size) ==
    [name \in DOMAIN files |-> CompressOne(files[name], max_file_size)]

-----------------------------------------------------------------------------
(* Messages, the token counter and trim_messages.                          *)
(*                                                                         *)
(* A message is [id, role, tok, kind]: tok is what the counter charges for *)
(* it (count_tokens_approximately sums a per-message cost), kind tells a   *)
(* conversation message from the two notifications and from the            *)
(* RemoveMessage(REMOVE_ALL_MESSAGES) marker. id 0 is "no id yet".         *)

Roles == {"system", "human", "ai", "tool"}

\* SystemMessage(content="[SYSTEM: Context compressed using LangGraph ...]")
TrimNote == [id |-> 0, role |-> "system", tok |-> 1, kind |-> "trim_note"]

\* SystemMessage(content="[SYSTEM: Files compressed - ...]"); the file names
\* it lists are not modelled
FileNote == [id |-> 0, role |-> "system", tok |-> 1, kind |-> "file_note"]

\* RemoveMessage(REMOVE_ALL_MESSAGES)
RemoveAll == [id |-> 0, role |-> "remove", tok |-> 0, kind |-> "remove_all"]

\* count_tokens_approximately(messages)
RECURSIVE CountTokens(_)
CountTokens(msgs) ==
    IF msgs = <<>> THEN 0 ELSE msgs[1].tok + CountTokens(Tail(msgs))

Reverse(s) == [i \in 1..Len(s) |-> s[Len(s) + 1 - i]]

\* pop trailing messages until the last one has a type in types
RECURSIVE DropTrailingNot(_, _)
DropTrailingNot(msgs, types) ==
    IF msgs = <<>> \/ msgs[Len(msgs)].role \in types THEN msgs
    ELSE DropTrailingNot(SubSeq(msgs, 1, Len(msgs) - 1), types)

\* the longest prefix the counter accepts, then cut back to an allowed end
FirstMaxTokens(msgs, max_tokens, end_on) ==
    LET idx == CHOOSE i \in 0..Len(msgs) :
                   /\ CountTokens(SubSeq(msgs, 1, i)) <= max_tokens
                   /\ \A j \in (i + 1)..Len(msgs) :
                          CountTokens(SubSeq(msgs, 1, j)) > max_tokens
        fit == SubSeq(msgs, 1, idx)
    IN  IF end_on # {} THEN DropTrailingNot(fit, end_on) ELSE fit

\* strategy "last": cut the tail back to end_on, set a leading system
\* message aside (include_system), keep the longest suffix that fits what
\* is left of the budget, cut its head forward to start_on
LastMaxTokens(msgs, c) ==
    LET ended == IF c.end_on # {} THEN DropTrailingNot(msgs, c.end_on) ELSE msgs
        hasSys == c.include_system /\ ended # <<>> /\ ended[1].role = "system"
        rest == IF hasSys THEN Tail(ended) ELSE ended
        remaining == IF hasSys
                     THEN Max(0, c.max_tokens - CountTokens(<<ended[1]>>))
                     ELSE c.max_tokens
        result == Reverse(FirstMaxTokens(Reverse(rest), remaining, {c.start_on}))
    IN  IF hasSys THEN <<ended[1]>> \o result ELSE result

\* trim_messages rejects start_on (always set in a CompressionConfig) with
\* strategy "first": ValueError
TrimMessagesRaises(c) == c.strategy = "first"

\* mutant: the call passes no end_on
TrimMessagesWithoutEndOn(msgs, c) == LastMaxTokens(msgs, [c EXCEPT !.end_on = {}])

\* trim_messages(messages, strategy=..., max_tokens=..., start_on=..., ...)
TrimMessages(msgs, c) == LastMaxTokens(msgs, c)

-----------------------------------------------------------------------------
(* compression_hook and _compress_files_if_needed.                         *)
(*                                                                         *)
(* The state is [messages, files, llm]: llm is the optional key            *)
(* llm_input_messages, [present, val]. A patch is a dict over the keys     *)
(* "messages", "llm_input_messages", "files".                              *)

Absent == [present |-> FALSE, val |-> <<>>]

Present(v) == [present |-> TRUE, val |-> v]

\* state.get("llm_input_messages", state.get("messages", []))
LlmOrMessages(st) == IF st.llm.present THEN st.llm.val ELSE st.messages

\* [name for name, content in files.items() if len(content) > max_file_size]
CompressedFileNames(files, c) ==
    {name \in DOMAIN files : ExceedsLimit(files[name], c.max_file_size)}

\* mutant: the notification always goes to "messages", whatever the mode
FilePatchIgnoringMode(st, c, compressed_files) ==
    [k \in {"files", "messages"} |->
        IF k = "files" THEN compressed_files ELSE Append(st.messages, FileNote)]

\* the patch of the notification branch
FilePatch(st, c, compressed_files) ==
    IF c.destructive
    THEN [k \in {"files", "messages"} |->
             IF k = "files" THEN compressed_files
             ELSE Append(st.messages, FileNote)]
    ELSE [k \in {"files", "llm_input_messages"} |->
             IF k = "files" THEN compressed_files
             ELSE Append(LlmOrMessages(st), FileNote)]

\* mutant: the compress_files switch is not consulted
CompressFilesRegardless(st, c) ==
    IF DOMAIN st.files = {} THEN None
    ELSE LET compressed_files == _compress_files(st.files, c.max_file_size)
         IN  IF compressed_files # st.files
             THEN Some(FilePatch(st, c, compressed_files))
             ELSE None

_compress_files_if_needed(st, c) ==
    IF ~c.compress_files THEN None
    ELSE IF DOMAIN st.files = {} THEN None
    ELSE LET compressed_files == _compress_files(st.files, c.max_file_size)
         IN  IF compressed_files # st.files
             THEN IF CompressedFileNames(st.files, c) # {}
                  THEN Some(FilePatch(st, c, compressed_files))
                  ELSE Some([k \in {"files"} |-> compressed_files])
             ELSE None

\* updates after the destructive / non-destructive branch
TrimPatch(c, trimmed_messages) ==
    IF c.destructive
    THEN [k \in {"messages"} |-> <<RemoveAll>> \o trimmed_messages]
    ELSE [k \in {"llm_input_messages"} |-> trimmed_messages]

\* file_updates merged into updates
MergeFileUpdates(upd, file_updates) ==
    IF Truthy(file_updates) THEN Overlay(upd, file_updates.val) ELSE upd

\* mutant: the except branch logs and re-raises
OnTrimFailureReraised(st, c) ==
    [raised |-> TRUE, ret |-> None, trimmed |-> FALSE, kept |-> <<>>]

\* the except branch: a failure inside the try block
OnTrimFailure(st, c) ==
    [raised |-> FALSE, ret |-> _compress_files_if_needed(st, c),
     trimmed |-> FALSE, kept |-> <<>>]

\* a failure of count_tokens_approximately at the budget check, which no
\* try block encloses
OnCountFailure(st, c) ==
    [raised |-> TRUE, ret |-> None, trimmed |-> FALSE, kept |-> <<>>]

\* the budget check
WithinBudget(st, c) == CountTokens(st.messages) <= c.max_tokens

\* compression_hook(state). fault names what fails in this call:
\*   "none"   nothing
\*   "count"  the token counter, at its first use
\*   "trim"   something inside the try block (trim_messages or the counter
\*            it is given)
\* Result: [raised, ret, trimmed, kept]; kept is what trim_messages returned.
compression_hook(st, c, fault) ==
    IF st.messages = <<>>
    THEN [raised |-> FALSE, ret |-> _compress_files_if_needed(st, c),
          trimmed |-> FALSE, kept |-> <<>>]
    ELSE IF fault = "count" THEN OnCountFailure(st, c)
    ELSE IF WithinBudget(st, c)
    THEN [raised |-> FALSE, ret |-> _compress_files_if_needed(st, c),
          trimmed |-> FALSE, kept |-> <<>>]
    ELSE IF fault = "trim" \/ TrimMessagesRaises(c) THEN OnTrimFailure(st, c)
    ELSE LET kept == TrimMessages(st.messages, c)
             trimmed_messages == Append(kept, TrimNote)
             upd == MergeFileUpdates(TrimPatch(c, trimmed_messages),
                                     _compress_files_if_needed(st, c))
         IN  [raised |-> FALSE,
              ret |-> IF DOMAIN upd # {} THEN Some(upd) ELSE None,
              trimmed |-> TRUE, kept |-> kept]

\* the faults a call can meet: the counter is only called on a non-empty
\* conversation, the try block only entered over budget
FaultsPossible(st, c) ==
    {"none"}
    \cup (IF st.messages # <<>> THEN {"count"} ELSE {})
    \cup (IF st.messages # <<>> /\ ~WithinBudget(st, c) THEN {"trim"} ELSE {})

HookIdle ==
    /\ cfg = [max_tokens |-> 1, strategy |-> "last", start_on |-> "human",
              end_on |-> {"human", "tool"}, include_system |-> TRUE,
              compress_files |-> TRUE, max_file_size |-> 1, destructive |-> FALSE]
    /\ hstate = [messages |-> <<>>, files |-> EmptyMap, llm |-> Absent]
    /\ hfault = "none"
    /\ hout = [raised |-> FALSE, ret |-> None, trimmed |-> FALSE, kept |-> <<>>]
    /\ calls = 0
    /\ hpc = "idle"

-----------------------------------------------------------------------------
(* SpecFiles: _compress_files on drawn inputs, then on its own output.     *)

FileNames == {"f1", "f2"}

Alphabet == {"a", "b"}

Contents == SeqsUpTo(Alphabet, MaxContentLen)

Stores == UNION {[D -> Contents] : D \in SUBSET FileNames}

FilesIdle ==
    /\ fcfg = 1
    /\ fin = EmptyMap
    /\ fout = EmptyMap
    /\ fout2 = EmptyMap
    /\ fpc = "idle"

ChainIdle ==
    /\ hooks = <<>>
    /\ cstate0 = EmptyMap
    /\ cstate = EmptyMap
    /\ updates = EmptyMap
    /\ ci = 1
    /\ seen = <<>>
    /\ results = <<>>
    /\ cret = None
    /\ cpc = "idle"

AgentIdle ==
    /\ aargs = [interrupt_config |-> "None", post_model_hook |-> "None",
                compression_config |-> "None"]
    /\ post_hooks = <<>>
    /\ pre_model_hook = "None"
    /\ selected_post_model_hook = "None"
    /\ apc = "idle"

InitFiles ==
    /\ fcfg \in 1..MaxFileSize
    /\ fin \in Stores
    /\ fout = EmptyMap
    /\ fout2 = EmptyMap
    /\ fpc = "in"
    /\ ChainIdle
    /\ HookIdle
    /\ AgentIdle

CompressFiles ==
    /\ fpc = "in"
    /\ fout' = _compress_files(fin, fcfg)
    /\ fpc' = "once"
    /\ UNCHANGED <<fcfg, fin, fout2>>
    /\ UNCHANGED <<chainVars, hookVars, agentVars>>

CompressFilesAgain ==
    /\ fpc = "once"
    /\ fout2' = _compress_files(fout, fcfg)
    /\ fpc' = "twice"
    /\ UNCHANGED <<fcfg, fin, fout>>
    /\ UNCHANGED <<chainVars, hookVars, agentVars>>

NextFiles == CompressFiles \/ CompressFilesAgain

SpecFiles == InitFiles /\ [][NextFiles]_vars

-----------------------------------------------------------------------------
(* Claims about _compress_files (SpecFiles).                               *)

\* the last k characters of content, as the rule content[L-k:] reads
LastChars(content, k) == SubSeq(content, Len(content) - k + 1, Len(content))

\* C7: file compression is idempotent: compressing the compressed store
\* again with the same config returns it unchanged.
C7_Idempotent == fpc = "twice" => fout2 = fout

\* C8: the output has the input's key set; content of length L <=
\* max_file_size is returned identical; longer content becomes its first k
\* characters, the elision marker stating L - 2k, and its last k characters
\* (none when k = 0), with k = max_file_size div 3.
C8_FileThreshold ==
    fpc \in {"once", "twice"} =>
        /\ DOMAIN fout = DOMAIN fin
        /\ \A name \in DOMAIN fin :
              LET content == fin[name]
                  L == Len(content)
                  k == fcfg \div 3
              IN  IF L <= fcfg
                  THEN fout[name] = content
                  ELSE fout[name] = SubSeq(content, 1, k)
                                    \o TruncationNotice(L - 2 * k)
                                    \o LastChars(content, k)

\* C9: every entry of the compressed store has length <= max_file_size,
\* the elision marker included.
C9_WithinLimit ==
    fpc \in {"once", "twice"} => \A name \in DOMAIN fout : Len(fout[name]) <= fcfg

-----------------------------------------------------------------------------
(* chain_hooks: hooks are callables state -> Optional[dict]; a small       *)
(* family of them stands for the callables a caller may pass.              *)

HookKinds == {"none", "empty", "set_x_1", "set_x_2", "set_y_1", "copy_x_to_y"}

Fields == {"x", "y", "z"}

\* hook(state)
HookCall(kind, state) ==
    CASE kind = "none" -> None
      [] kind = "empty" -> Some(EmptyMap)
      [] kind = "set_x_1" -> Some([f \in {"x"} |-> 1])
      [] kind = "set_x_2" -> Some([f \in {"x"} |-> 2])
      [] kind = "set_y_1" -> Some([f \in {"y"} |-> 1])
      [] kind = "copy_x_to_y" ->
            IF "x" \in DOMAIN state THEN Some([f \in {"y"} |-> state["x"]]) ELSE None

\* mutant: first-writer-wins, as setdefault on every key would do
MergeUpdatesKeepFirst(upd, hook_result) == Overlay(hook_result, upd)

\* mutant: `updates = hook_result`, each patch replacing the collected one
MergeUpdatesReplace(upd, hook_result) == hook_result

\* updates.update(hook_result)
MergeUpdates(upd, hook_result) == Overlay(upd, hook_result)

\* mutant: the patch is collected but never applied to the working state
MergeStateSkipped(state, hook_result) == state

\* state = {**state, **hook_result}
MergeState(state, hook_result) == Overlay(state, hook_result)

\* mutant: `return updates`, without the falsy-to-None conversion
ChainReturnValueRaw(upd) == Some(upd)

\* return updates if updates else None
ChainReturnValue(upd) == IF DOMAIN upd # {} THEN Some(upd) ELSE None

ChainStates == UNION {[D -> {0, 5}] : D \in SUBSET {"x", "z"}}

InitChain ==
    /\ hooks \in SeqsUpTo(HookKinds, MaxHooks)
    /\ cstate0 \in ChainStates
    /\ cstate = cstate0
    /\ updates = EmptyMap
    /\ ci = 1
    /\ seen = <<>>
    /\ results = <<>>
    /\ cret = None
    /\ cpc = "loop"
    /\ FilesIdle
    /\ HookIdle
    /\ AgentIdle

\* one iteration of `for hook in hooks`
ChainStep ==
    /\ cpc = "loop"
    /\ ci <= Len(hooks)
    /\ LET hook_result == HookCall(hooks[ci], cstate)
       IN  /\ seen' = Append(seen, [hook |-> ci, state |-> cstate])
           /\ results' = Append(results, hook_result)
           /\ IF Truthy(hook_result)
              THEN /\ updates' = MergeUpdates(updates, hook_result.val)
                   /\ cstate' = MergeState(cstate, hook_result.val)
              ELSE UNCHANGED <<updates, cstate>>
    /\ ci' = ci + 1
    /\ UNCHANGED <<hooks, cstate0, cret, cpc>>
    /\ UNCHANGED <<fileVars, hookVars, agentVars>>

\* the loop is exhausted: return
ChainReturn ==
    /\ cpc = "loop"
    /\ ci > Len(hooks)
    /\ cret' = ChainReturnValue(updates)
    /\ cpc' = "done"
    /\ UNCHANGED <<hooks, cstate0, cstate, updates, ci, seen, results>>
    /\ UNCHANGED <<fileVars, hookVars, agentVars>>

NextChain == ChainStep \/ ChainReturn

SpecChain == InitChain /\ [][NextChain]_vars

-----------------------------------------------------------------------------
(* Claims about chain_hooks (SpecChain).                                   *)

\* the fields a hook result writes (None and {} write none)
Written(r) == IF r.isNone THEN {} ELSE DOMAIN r.val

\* the steps, by position, that wrote field f
Writers(f) == {i \in 1..Len(results) : f \in Written(results[i])}

LastWriter(f) == CHOOSE i \in Writers(f) : \A j \in Writers(f) : j <= i

\* the initial state overlaid with the patches of steps 1..n, in order
RECURSIVE OverlaidUpTo(_)
OverlaidUpTo(n) ==
    IF n = 0 THEN cstate0
    ELSE LET before == OverlaidUpTo(n - 1)
             patch == results[n]
         IN  [f \in (DOMAIN before) \cup Written(patch) |->
                 IF f \in Written(patch) THEN patch.val[f] ELSE before[f]]

\* C4: the composite patch holds exactly the fields written by any step,
\* each with the value of the last step, in list order, that wrote it.
C4_LastWriterWins ==
    cpc = "done" =>
        /\ Written(cret) = {f \in Fields : Writers(f) # {}}
        /\ \A f \in Written(cret) : cret.val[f] = results[LastWriter(f)].val[f]

\* two steps wrote the same field with different values, and a third field
\* was written by one step only
C4_Witness ==
    /\ cpc = "done"
    /\ \E i, j \in Writers("x") : i < j /\ results[i].val["x"] # results[j].val["x"]
    /\ Cardinality(Writers("y")) = 1

\* C5: the steps are called in list order, and the k-th call receives the
\* initial state overlaid with the patches returned by steps 1..k-1.
C5_LaterStepsObserveEarlier ==
    /\ Len(seen) = Len(results)
    /\ Len(seen) <= Len(hooks)
    /\ cpc = "done" => Len(seen) = Len(hooks)
    /\ \A k \in 1..Len(seen) :
          /\ seen[k].hook = k
          /\ seen[k].state = OverlaidUpTo(k - 1)

\* a later step was called with a state that differs from the initial one,
\* and its own result shows it read an earlier step's write
C5_Witness ==
    /\ cpc = "done"
    /\ \E k \in 2..Len(seen) :
          /\ hooks[k] = "copy_x_to_y"
          /\ seen[k].state # cstate0
          /\ "x" \notin DOMAIN cstate0
          /\ ~results[k].isNone

\* C6: the composite is None, never an empty patch, when every step
\* returned None or an empty patch; it is a non-empty patch exactly when
\* some step returned a non-empty patch.
C6_NoneUnlessSomeStepPatched ==
    cpc = "done" =>
        /\ ~(~cret.isNone /\ DOMAIN cret.val = {})
        /\ (~cret.isNone) <=> (\E i \in 1..Len(results) : Written(results[i]) # {})

\* steps ran, one of them returned an empty patch, none wrote a field, and
\* the composite is None
C6_Witness ==
    /\ cpc = "done"
    /\ \E i \in 1..Len(results) : ~results[i].isNone /\ DOMAIN results[i].val = {}
    /\ \E i \in 1..Len(results) : results[i].isNone
    /\ cret.isNone

-----------------------------------------------------------------------------
(* The host: it calls compression_hook before a model call and applies the *)
(* patch the hook returns.                                                 *)

RECURSIVE MaxId(_)
MaxId(msgs) == IF msgs = <<>> THEN 0 ELSE Max(msgs[1].id, MaxId(Tail(msgs)))

\* messages without an id get a fresh one
AssignIds(msgs, base) ==
    [i \in 1..Len(msgs) |->
        IF msgs[i].id = 0 /\ msgs[i].kind # "remove_all"
        THEN [msgs[i] EXCEPT !.id = base + i]
        ELSE msgs[i]]

\* a message whose id is already in the list replaces that entry, any
\* other is appended
RECURSIVE MergeById(_, _)
MergeById(left, right) ==
    IF right = <<>> THEN left
    ELSE LET m == right[1]
             at == {i \in 1..Len(left) : left[i].id = m.id}
         IN  MergeById(IF at = {} THEN Append(left, m)
                       ELSE [i \in 1..Len(left) |-> IF i \in at THEN m ELSE left[i]],
                       Tail(right))

\* the reducer of the messages channel: everything after a replace-all
\* marker replaces the history, a list without one is merged by id
AddMessages(left, right) ==
    LET r == AssignIds(right, Max(MaxId(left), MaxId(right)))
        marks == {i \in 1..Len(r) : r[i].kind = "remove_all"}
    IN  IF marks # {}
        THEN SubSeq(r, (CHOOSE i \in marks : \A j \in marks : j <= i) + 1, Len(r))
        ELSE MergeById(left, r)

\* the files channel: the patch's store replaces the store
ReplaceFiles(files, patch_files) == patch_files

\* the state after the host applied a returned value; the ephemeral view
\* is consumed by the model call and not kept
ApplyPatch(st, ret) ==
    IF ret.isNone THEN [st EXCEPT !.llm = Absent]
    ELSE [messages |-> IF "messages" \in DOMAIN ret.val
                       THEN AddMessages(st.messages, ret.val["messages"])
                       ELSE st.messages,
          files |-> IF "files" \in DOMAIN ret.val
                    THEN ReplaceFiles(st.files, ret.val["files"])
                    ELSE st.files,
          llm |-> Absent]

-----------------------------------------------------------------------------
(* Spec: the host calls compression_hook and applies what it returns.      *)

\* a message of each role costing one token, and a long user message that
\* alone exceeds the budgets of Configs
MsgShapes == (Roles \X {1}) \cup {<<"human", 3>>}

\* conversations: every sequence of shapes, ids by position
Conversations ==
    {[i \in 1..Len(shape) |->
         [id |-> i, role |-> shape[i][1], tok |-> shape[i][2], kind |-> "conv"]] :
     shape \in SeqsUpTo(MsgShapes, MaxMsgs)}

Configs ==
    [max_tokens : {2},
     strategy : {"last", "first"},
     start_on : {"human"},
     end_on : {{"human", "tool"}},
     include_system : BOOLEAN,
     compress_files : BOOLEAN,
     max_file_size : {2, 3},
     destructive : BOOLEAN]

ShortText == <<"a", "b">>

LongText == <<"a", "b", "c", "d">>

\* what earlier turns with max_file_size = 3 leave of LongText
SettledText ==
    TruncatedContent(TruncatedContent(TruncatedContent(LongText, 3), 3), 3)

\* no file, one file within every limit of Configs, one file over them,
\* one of each, and one file already truncated by earlier turns
HookStores ==
    {EmptyMap,
     [n \in {"f1"} |-> ShortText],
     [n \in {"f1"} |-> LongText],
     [n \in {"f1", "f2"} |-> IF n = "f1" THEN LongText ELSE ShortText],
     [n \in {"f1"} |-> SettledText]}

\* an ephemeral view left in the state by whoever built it
StaleView == <<[id |-> 0, role |-> "human", tok |-> 1, kind |-> "stale"]>>

NoOutcome == [raised |-> FALSE, ret |-> None, trimmed |-> FALSE, kept |-> <<>>]

Init ==
    /\ cfg \in Configs
    /\ hstate \in [messages : Conversations, files : HookStores,
                   llm : {Absent, Present(StaleView)}]
    /\ hfault = "none"
    /\ hout = NoOutcome
    /\ calls = 0
    /\ hpc = "ready"
    /\ FilesIdle
    /\ ChainIdle
    /\ AgentIdle

\* one call of compression_hook(state)
Call ==
    /\ hpc = "ready"
    /\ calls < MaxCalls
    /\ \E fault \in FaultsPossible(hstate, cfg) :
          /\ hfault' = fault
          /\ hout' = compression_hook(hstate, cfg, fault)
    /\ hpc' = IF hout'.raised THEN "raised" ELSE "returned"
    /\ calls' = calls + 1
    /\ UNCHANGED <<cfg, hstate>>
    /\ UNCHANGED <<fileVars, chainVars, agentVars>>

\* the host applies the returned patch
HostApply ==
    /\ hpc = "returned"
    /\ hstate' = ApplyPatch(hstate, hout.ret)
    /\ hfault' = "none"
    /\ hout' = NoOutcome
    /\ hpc' = "ready"
    /\ UNCHANGED <<cfg, calls>>
    /\ UNCHANGED <<fileVars, chainVars, agentVars>>

\* the call raised: the host's turn failed, the state is as it was
HostRecover ==
    /\ hpc = "raised"
    /\ hfault' = "none"
    /\ hout' = NoOutcome
    /\ hpc' = "ready"
    /\ UNCHANGED <<cfg, hstate, calls>>
    /\ UNCHANGED <<fileVars, chainVars, agentVars>>

Next == Call \/ HostApply \/ HostRecover

Spec == Init /\ [][Next]_vars

-----------------------------------------------------------------------------
(* Claims about compression_hook (Spec).                                   *)

\* the keys of a returned value (None has none)
PatchKeys(ret) == IF ret.isNone THEN {} ELSE DOMAIN ret.val

\* a message list without the marker and the notifications
ConversationOf(msgs) ==
    SelectSeq(msgs, LAMBDA m : m.kind \notin {"remove_all", "trim_note", "file_note"})

\* the key that carries the message list in the configured mode
ModeKey == IF cfg.destructive THEN "messages" ELSE "llm_input_messages"

\* some file of the state handed to the hook is over the limit and file
\* compression is on
FilesFire ==
    /\ cfg.compress_files
    /\ \E name \in DOMAIN hstate.files : Len(hstate.files[name]) > cfg.max_file_size

\* C1: when one call both trims and compresses files, the patch carries
\* the compressed store and, under the mode's key, the trimmed list: the
\* conversation messages in it are exactly those the trimmer kept.
C1_BothEffects ==
    (hpc = "returned" /\ hout.trimmed /\ FilesFire) =>
        /\ {"files", ModeKey} \subseteq PatchKeys(hout.ret)
        /\ hout.ret.val["files"] = _compress_files(hstate.files, cfg.max_file_size)
        /\ ConversationOf(hout.ret.val[ModeKey]) = hout.kept

\* C2: with destructive = false no returned patch has a "messages" entry,
\* message lists travel under llm_input_messages only, and the canonical
\* history after the host applied the patch is the pre-call history.
C2_NonDestructiveKeepsHistory ==
    (hpc = "returned" /\ ~cfg.destructive) =>
        /\ "messages" \notin PatchKeys(hout.ret)
        /\ PatchKeys(hout.ret) \subseteq {"llm_input_messages", "files"}
        /\ hout.trimmed => "llm_input_messages" \in PatchKeys(hout.ret)
        /\ ApplyPatch(hstate, hout.ret).messages = hstate.messages

\* a non-destructive call in which both channels fired
C2_Witness ==
    /\ hpc = "returned"
    /\ ~cfg.destructive
    /\ hout.trimmed
    /\ FilesFire
    /\ PatchKeys(hout.ret) = {"llm_input_messages", "files"}

\* C3: with destructive = true every "messages" entry of a returned patch
\* is the replace-all marker followed by a message list, and the canonical
\* history after the host applied it is that list.
C3_DestructiveReplacesAll ==
    (hpc = "returned" /\ cfg.destructive /\ "messages" \in PatchKeys(hout.ret)) =>
        LET entry == hout.ret.val["messages"]
        IN  /\ entry # <<>>
            /\ entry[1].kind = "remove_all"
            /\ \A i \in 2..Len(entry) : entry[i].kind # "remove_all"
            /\ ConversationOf(ApplyPatch(hstate, hout.ret).messages)
                   = ConversationOf(Tail(entry))
            /\ Len(ApplyPatch(hstate, hout.ret).messages) = Len(entry) - 1

\* C10: when the token counter fails in a call on a non-empty conversation
\* the hook raises nothing and returns what file compression alone returns.
C10_CounterFailureRecovered ==
    (hpc \in {"returned", "raised"} /\ hfault = "count") =>
        /\ ~hout.raised
        /\ hout.ret = _compress_files_if_needed(hstate, cfg)

\* every message list of a returned value
PatchLists(ret) ==
    {ret.val[k] : k \in PatchKeys(ret) \cap {"messages", "llm_input_messages"}}

\* the trimmer raised in the last call: the conversation was over budget,
\* the counter worked, and trim_messages failed or rejected its arguments
TrimmerRaised ==
    /\ hpc \in {"returned", "raised"}
    /\ hstate.messages # <<>>
    /\ hfault # "count"
    /\ ~WithinBudget(hstate, cfg)
    /\ (hfault = "trim" \/ TrimMessagesRaises(cfg))

\* C11: when trim_messages raises on an over-budget conversation, the hook
\* raises nothing and returns what file compression alone returns for the
\* unchanged state: no trimmed list, no trim notification, no replace-all
\* marker.
C11_TrimmerFailureRecovered ==
    TrimmerRaised =>
        /\ ~hout.raised
        /\ ~hout.trimmed
        /\ hout.ret = _compress_files_if_needed(hstate, cfg)
        /\ \A l \in PatchLists(hout.ret) :
              /\ \A i \in 1..Len(l) : l[i].kind \notin {"remove_all", "trim_note"}
              /\ hout.ret.val["files"] # hstate.files

\* the trimmer failed in a destructive call whose file channel fired
C11_Witness ==
    /\ TrimmerRaised
    /\ hfault = "trim"
    /\ cfg.destructive
    /\ FilesFire
    /\ PatchKeys(hout.ret) = {"files", "messages"}

\* the last call did not have to trim: the conversation was empty or
\* within budget
NoBudgetPressure ==
    /\ hpc = "returned"
    /\ (hstate.messages = <<>> \/ WithinBudget(hstate, cfg))

\* C12: with an empty or within-budget conversation the hook trims nothing
\* (every message list of the patch holds the whole conversation) and
\* returns a files patch exactly when compress_files is on and some file
\* exceeds max_file_size; otherwise it returns nothing.
C12_ChannelsDecoupled ==
    NoBudgetPressure =>
        /\ ~hout.trimmed
        /\ \A l \in PatchLists(hout.ret) :
              \A i \in 1..Len(hstate.messages) :
                  \E j \in 1..Len(l) : l[j] = hstate.messages[i]
        /\ ("files" \in PatchKeys(hout.ret)) <=> FilesFire
        /\ ~FilesFire => hout.ret.isNone

IsNotification(m) == m.kind \in {"trim_note", "file_note"}

\* C13: when the host applies every patch before the next call, no
\* notification of an earlier call is in the message list whose token
\* count a later call compares with max_tokens.
C13_NotificationsNeverCounted ==
    (hpc \in {"returned", "raised"} /\ calls >= 2) =>
        \A i \in 1..Len(hstate.messages) : ~IsNotification(hstate.messages[i])

\* C14: the hook never reads the ephemeral view: the state of the last call
\* with llm_input_messages removed, or replaced by another list, gets the
\* same result.
C14_EphemeralViewNeverRead ==
    hpc \in {"returned", "raised"} =>
        /\ hout = compression_hook([hstate EXCEPT !.llm = Absent], cfg, hfault)
        /\ hout = compression_hook([hstate EXCEPT !.llm = Present(StaleView)],
                                   cfg, hfault)

\* C18: with compress_files = false no returned patch has a "files" entry
\* or a file notification; the only patch is the trimming patch, and an
\* empty or within-budget conversation gets nothing.
C18_FileChannelOff ==
    (hpc = "returned" /\ ~cfg.compress_files) =>
        /\ "files" \notin PatchKeys(hout.ret)
        /\ \A l \in PatchLists(hout.ret) :
              \A i \in 1..Len(l) : l[i].kind # "file_note"
        /\ hout.trimmed =>
              hout.ret = Some(TrimPatch(cfg, Append(hout.kept, TrimNote)))
        /\ ~hout.trimmed => hout.ret.isNone

\* compress_files is off, a file is over the limit, and the call trimmed
C18_Witness ==
    /\ hpc = "returned"
    /\ ~cfg.compress_files
    /\ \E name \in DOMAIN hstate.files : Len(hstate.files[name]) > cfg.max_file_size
    /\ hout.trimmed
    /\ PatchKeys(hout.ret) = {ModeKey}

-----------------------------------------------------------------------------
(* SpecTrim: the same host and hook, drawn over every start_on and end_on  *)
(* and over conversations whose system prompt alone can exceed the budget. *)

TrimShapes == MsgShapes \cup {<<"system", 3>>}

TrimConversations ==
    {[i \in 1..Len(shape) |->
         [id |-> i, role |-> shape[i][1], tok |-> shape[i][2], kind |-> "conv"]] :
     shape \in SeqsUpTo(TrimShapes, MaxMsgs)}

TrimConfigs ==
    [max_tokens : {2},
     strategy : {"last"},
     start_on : {"human", "ai", "tool"},
     end_on : (SUBSET {"human", "ai", "tool"}) \ {{}},
     include_system : BOOLEAN,
     compress_files : {TRUE},
     max_file_size : {3},
     destructive : BOOLEAN]

InitTrim ==
    /\ cfg \in TrimConfigs
    /\ hstate \in [messages : TrimConversations,
                   files : {EmptyMap, [n \in {"f1"} |-> LongText]},
                   llm : {Absent}]
    /\ hfault = "none"
    /\ hout = NoOutcome
    /\ calls = 0
    /\ hpc = "ready"
    /\ FilesIdle
    /\ ChainIdle
    /\ AgentIdle

SpecTrim == InitTrim /\ [][Next]_vars

\* the last call trimmed
Trimmed == hpc = "returned" /\ hout.trimmed

\* what the trimmer kept, without the leading system message that
\* include_system preserves
KeptWindow ==
    IF cfg.include_system /\ hout.kept # <<>> /\ hout.kept[1].role = "system"
    THEN Tail(hout.kept)
    ELSE hout.kept

\* C15 as stated: whenever the hook trims, the message list it places in
\* the patch starts with role start_on and ends with a role in end_on.
C15_PatchListBoundaries ==
    Trimmed =>
        LET l == hout.ret.val[ModeKey]
        IN  /\ l # <<>>
            /\ l[1].role = cfg.start_on
            /\ l[Len(l)].role \in cfg.end_on

\* C15 amended: whenever the hook trims, the list the trimmer kept, before
\* the hook appends its notification and apart from a leading system
\* message preserved by include_system, is empty or starts with role
\* start_on and ends with a role in end_on, and is a run of consecutive
\* messages of the conversation.
C15_KeptWindowBoundaries ==
    Trimmed =>
        \/ KeptWindow = <<>>
        \/ /\ KeptWindow[1].role = cfg.start_on
           /\ KeptWindow[Len(KeptWindow)].role \in cfg.end_on
           /\ \E a \in 1..Len(hstate.messages) :
                 KeptWindow = SubSeq(hstate.messages, a, a + Len(KeptWindow) - 1)

\* a trim that kept the system prompt and a window cut at both boundaries
C15_Witness ==
    /\ Trimmed
    /\ cfg.include_system
    /\ hout.kept # <<>>
    /\ hout.kept[1].role = "system"
    /\ KeptWindow # <<>>
    /\ hstate.messages[Len(hstate.messages)].role \notin cfg.end_on
    /\ Len(hout.kept) < Len(hstate.messages)

\* C16: whenever the hook trims, the message list it delivers in the
\* patch, with everything the hook appended, counts at most max_tokens
\* (the code has no fallback and sets no flag).
C16_DeliveredWithinBudget ==
    Trimmed => CountTokens(hout.ret.val[ModeKey]) <= cfg.max_tokens

-----------------------------------------------------------------------------
(* SpecChain: the composite patch against the sequence of step patches.    *)

\* a host applying an optional patch to a state by shallow field overlay
ApplyOptional(state, ret) == IF ret.isNone THEN state ELSE Overlay(state, ret.val)

\* the step results applied one after another
RECURSIVE ApplyInSequence(_, _)
ApplyInSequence(state, rs) ==
    IF rs = <<>> THEN state
    ELSE ApplyInSequence(ApplyOptional(state, rs[1]), Tail(rs))

\* C20: when the chain has returned, overlaying its composite patch on the
\* initial state gives exactly the working state held after the last step,
\* which is also the initial state with every step's patch applied in order.
C20_CompositeEqualsSequence ==
    cpc = "done" =>
        /\ ApplyOptional(cstate0, cret) = cstate
        /\ ApplyInSequence(cstate0, results) = cstate

\* two steps wrote the same field with different values, a third field of
\* the input was left alone, and a later step read what an earlier one wrote
C20_Witness ==
    /\ cpc = "done"
    /\ \E i, j \in 1..Len(results) :
          /\ i < j
          /\ Truthy(results[i]) /\ Truthy(results[j])
          /\ "x" \in DOMAIN results[i].val /\ "x" \in DOMAIN results[j].val
          /\ results[i].val["x"] # results[j].val["x"]
    /\ \E k \in 1..Len(hooks) : hooks[k] = "copy_x_to_y" /\ Truthy(results[k])
    /\ "z" \in DOMAIN cstate0
    /\ cstate # cstate0

-----------------------------------------------------------------------------
(* SpecAgent: create_deep_agent assembles the pre and post hooks; the host *)
(* then calls the installed post hook once.                                *)

\* what the hook made by create_interrupt_hook(interrupt_config) may do on a
\* call: approve silently, or patch the state
InterruptHooks == {"none", "set_x_1", "set_x_2"}

AgentArgs ==
    [interrupt_config : {"None"} \cup InterruptHooks,
     post_model_hook : {"None"} \cup HookKinds,
     compression_config : {"None", "given"}]

\* mutant: the caller's hook is appended before the interrupt hook
PostHooksCallerFirst(a) ==
    (IF a.post_model_hook # "None"
     THEN <<[origin |-> "caller", kind |-> a.post_model_hook]>> ELSE <<>>)
    \o (IF a.interrupt_config # "None"
        THEN <<[origin |-> "interrupt", kind |-> a.interrupt_config]>> ELSE <<>>)

\* post_hooks = []; append the interrupt hook, then the caller's hook
PostHooks(a) ==
    (IF a.interrupt_config # "None"
     THEN <<[origin |-> "interrupt", kind |-> a.interrupt_config]>> ELSE <<>>)
    \o (IF a.post_model_hook # "None"
        THEN <<[origin |-> "caller", kind |-> a.post_model_hook]>> ELSE <<>>)

\* chain_hooks(post_hooks) if post_hooks else None
SelectedPostModelHook(ph) == IF ph # <<>> THEN "chain" ELSE "None"

\* compression_pre_hook: None unless compression_config is given
CompressionPreHook(a) ==
    IF a.compression_config # "None" THEN "compression" ELSE "None"

InitAgent ==
    /\ aargs \in AgentArgs
    /\ post_hooks = <<>>
    /\ pre_model_hook = "None"
    /\ selected_post_model_hook = "None"
    /\ apc = "args"
    /\ FilesIdle
    /\ ChainIdle
    /\ HookIdle

\* create_deep_agent, as far as the hooks go
CreateDeepAgent ==
    /\ apc = "args"
    /\ post_hooks' = PostHooks(aargs)
    /\ pre_model_hook' = CompressionPreHook(aargs)
    /\ selected_post_model_hook' = SelectedPostModelHook(PostHooks(aargs))
    /\ apc' = "built"
    /\ UNCHANGED aargs
    /\ UNCHANGED <<fileVars, chainVars, hookVars>>

\* the agent loop calls the installed post hook with its state
PostModelCall ==
    /\ apc = "built"
    /\ selected_post_model_hook = "chain"
    /\ hooks' = [i \in 1..Len(post_hooks) |-> post_hooks[i].kind]
    /\ \E st \in ChainStates :
          /\ cstate0' = st
          /\ cstate' = st
    /\ updates' = EmptyMap
    /\ ci' = 1
    /\ seen' = <<>>
    /\ results' = <<>>
    /\ cret' = None
    /\ cpc' = "loop"
    /\ apc' = "running"
    /\ UNCHANGED <<aargs, post_hooks, pre_model_hook, selected_post_model_hook>>
    /\ UNCHANGED <<fileVars, hookVars>>

NextAgent == CreateDeepAgent \/ PostModelCall \/ ChainStep \/ ChainReturn

SpecAgent == InitAgent /\ [][NextAgent]_vars

BothConfigured ==
    aargs.interrupt_config # "None" /\ aargs.post_model_hook # "None"

\* C19: once the agent is built, the post hooks are the interrupt hook (if
\* configured) followed by the caller's hook (if given); no post hook is
\* installed exactly when neither is configured; the compression pre-hook
\* is installed exactly when compression_config is given; and in every call
\* of the installed chain the interrupt step runs first and the caller's
\* step is called with the state overlaid with the interrupt step's patch.
C19_InterruptBeforeCaller ==
    apc \in {"built", "running"} =>
        /\ (selected_post_model_hook = "None") <=>
              (aargs.interrupt_config = "None" /\ aargs.post_model_hook = "None")
        /\ (pre_model_hook = "compression") <=> (aargs.compression_config = "given")
        /\ \A i, j \in 1..Len(post_hooks) :
              (post_hooks[i].origin = "interrupt" /\ post_hooks[j].origin = "caller")
                  => i < j
        /\ (aargs.interrupt_config # "None") <=>
              (\E i \in 1..Len(post_hooks) :
                  post_hooks[i] = [origin |-> "interrupt", kind |-> aargs.interrupt_config])
        /\ (aargs.post_model_hook # "None") <=>
              (\E i \in 1..Len(post_hooks) :
                  post_hooks[i] = [origin |-> "caller", kind |-> aargs.post_model_hook])
        /\ (BothConfigured /\ Len(seen) >= 1) =>
              /\ post_hooks[seen[1].hook].origin = "interrupt"
              /\ seen[1].state = cstate0
        /\ (BothConfigured /\ Len(seen) >= 2) =>
              /\ post_hooks[seen[2].hook].origin = "caller"
              /\ seen[2].state = ApplyOptional(cstate0, results[1])
              /\ results[1] = HookCall(aargs.interrupt_config, cstate0)

\* both configured, the chain has returned, and the caller's step copied a
\* field that only the interrupt step's patch provides
C19_Witness ==
    /\ apc = "running"
    /\ cpc = "done"
    /\ BothConfigured
    /\ aargs.compression_config = "None"
    /\ aargs.post_model_hook = "copy_x_to_y"
    /\ "x" \notin DOMAIN cstate0
    /\ Len(results) = 2
    /\ Truthy(results[2])
    /\ results[2].val["y"] = results[1].val["x"]

-----------------------------------------------------------------------------
(* Object identity: the same two hooks, statement by statement, over a     *)
(* heap of named collections, to tell a new collection from an alias and   *)
(* an in-place update from a rebinding.                                    *)

\* a new collection bound to a fresh name
Alloc(heap, obj, val) ==
    [o \in (DOMAIN heap) \cup {obj} |-> IF o = obj THEN val ELSE heap[o]]

\* list.append(m) on an existing collection
AppendInPlace(heap, obj, m) == [heap EXCEPT ![obj] = Append(@, m)]

\* the collections the caller passes in: the state mapping (its values are
\* references) and the lists and mappings it refers to
InputHeap(st) ==
    LET refs == IF st.llm.present
                THEN [k \in {"messages", "files", "llm_input_messages"} |-> k]
                ELSE [k \in {"messages", "files"} |-> k]
        base == Alloc(Alloc(Alloc(EmptyMap, "state", refs),
                            "messages", st.messages), "files", st.files)
    IN  IF st.llm.present THEN Alloc(base, "llm_input_messages", st.llm.val) ELSE base

\* the patch with every reference replaced by the collection it names
Deref(heap, ret) ==
    IF ret.isNone THEN None ELSE Some([k \in DOMAIN ret.val |-> heap[ret.val[k]]])

\* mutant: messages.append(file_msg) in place of messages + [file_msg]
FileNoteAppendedInPlace(heap, src) ==
    [heap |-> AppendInPlace(heap, src, FileNote), obj |-> src]

\* messages + [file_msg], llm_messages + [file_msg]: a new list
FileNoteList(heap, src) ==
    [heap |-> Alloc(heap, "noted", Append(heap[src], FileNote)), obj |-> "noted"]

\* the patch key of the message list in mode c
ModeKeyOf(c) == IF c.destructive THEN "messages" ELSE "llm_input_messages"

\* _compress_files_if_needed over the heap
CompressFilesIfNeededRefs(heap, c) ==
    IF ~c.compress_files \/ DOMAIN heap["files"] = {}
    THEN [heap |-> heap, ret |-> None]
    ELSE LET h1 == Alloc(heap, "compressed_files",
                         _compress_files(heap["files"], c.max_file_size))
         IN  IF h1["compressed_files"] # h1["files"]
                /\ CompressedFileNames(h1["files"], c) # {}
             THEN LET src == IF c.destructive THEN heap["state"]["messages"]
                             ELSE IF "llm_input_messages" \in DOMAIN heap["state"]
                                  THEN heap["state"]["llm_input_messages"]
                                  ELSE heap["state"]["messages"]
                      n == FileNoteList(h1, src)
                  IN  [heap |-> n.heap,
                       ret |-> Some([k \in {"files", ModeKeyOf(c)} |->
                                        IF k = "files" THEN "compressed_files"
                                        ELSE n.obj])]
             ELSE IF h1["compressed_files"] # h1["files"]
                  THEN [heap |-> h1, ret |-> Some([k \in {"files"} |-> "compressed_files"])]
                  ELSE [heap |-> h1, ret |-> None]

\* compression_hook over the heap
CompressionHookRefs(st, c, fault) ==
    LET h0 == InputHeap(st)
        messages == h0["state"]["messages"]
        filesOnly == CompressFilesIfNeededRefs(h0, c)
    IN  IF h0[messages] = <<>> THEN filesOnly
        ELSE IF fault = "count" THEN [heap |-> h0, ret |-> None]
        ELSE IF CountTokens(h0[messages]) <= c.max_tokens THEN filesOnly
        ELSE IF fault = "trim" \/ TrimMessagesRaises(c) THEN filesOnly
        ELSE LET h1 == Alloc(h0, "trimmed_messages", TrimMessages(h0[messages], c))
                 h2 == AppendInPlace(h1, "trimmed_messages", TrimNote)
                 h3 == IF c.destructive
                       THEN Alloc(h2, "marked", <<RemoveAll>> \o h2["trimmed_messages"])
                       ELSE h2
                 upd == [k \in {ModeKeyOf(c)} |->
                            IF c.destructive THEN "marked" ELSE "trimmed_messages"]
                 f == CompressFilesIfNeededRefs(h3, c)
             IN  [heap |-> f.heap,
                  ret |-> Some(IF Truthy(f.ret) THEN Overlay(upd, f.ret.val) ELSE upd)]

\* state = {**state, **hook_result}: a new mapping, the local name rebound
RebindState(heap, cur, i, hook_result) ==
    [heap |-> Alloc(heap, "state_" \o ToString(i), MergeState(heap[cur], hook_result)),
     cur |-> "state_" \o ToString(i)]

\* combined_hook over the heap, from hook i on; cur names the mapping the
\* local `state` is bound to
RECURSIVE CombinedHookRefs(_, _, _, _)
CombinedHookRefs(hs, heap, cur, i) ==
    IF i > Len(hs)
    THEN [heap |-> heap, cur |-> cur,
          ret |-> IF DOMAIN heap["updates"] # {} THEN "updates" ELSE "None"]
    ELSE LET hook_result == HookCall(hs[i], heap[cur])
         IN  IF Truthy(hook_result)
             THEN LET h1 == [heap EXCEPT !["updates"] =
                                 MergeUpdates(@, hook_result.val)]
                      r == RebindState(h1, cur, i, hook_result.val)
                  IN  CombinedHookRefs(hs, r.heap, r.cur, i + 1)
             ELSE CombinedHookRefs(hs, heap, cur, i + 1)

\* both hooks under one specification
InitBoth == Init \/ InitChain

NextBoth == Next \/ NextChain

SpecBoth == InitBoth /\ [][NextBoth]_vars

\* the names of the collections passed to compression_hook
HookInputs == DOMAIN InputHeap(hstate)

\* C17: after any call of compression_hook that returns, and after any
\* call of a hook built by chain_hooks, the state mapping, the messages
\* list and the files mapping passed in hold what they held before, and
\* every list or mapping in the returned patch, and the patch itself, is a
\* collection made during the call, not one that was passed in.
C17_InputsNeverMutated ==
    /\ hpc = "returned" =>
          LET r == CompressionHookRefs(hstate, cfg, hfault)
          IN  /\ Deref(r.heap, r.ret) = hout.ret
              /\ \A o \in HookInputs : r.heap[o] = InputHeap(hstate)[o]
              /\ \A k \in PatchKeys(r.ret) : r.ret.val[k] \notin HookInputs
    /\ cpc = "done" =>
          LET h0 == Alloc(Alloc(EmptyMap, "state", cstate0), "updates", EmptyMap)
              r == CombinedHookRefs(hooks, h0, "state", 1)
          IN  /\ r.heap["state"] = cstate0
              /\ r.heap[r.cur] = cstate
              /\ r.ret # "state"
              /\ cret = (IF r.ret = "None" THEN None ELSE Some(r.heap[r.ret]))

\* a destructive call where both the trim and the file compression fired,
\* and a chain in which two steps patched the working state
C17_Witness ==
    \/ /\ hpc = "returned"
       /\ cfg.destructive
       /\ hout.trimmed
       /\ FilesFire
       /\ PatchKeys(hout.ret) = {"files", "messages"}
    \/ /\ cpc = "done"
       /\ Cardinality({i \in 1..Len(results) : Truthy(results[i])}) >= 2
       /\ cstate # cstate0

-----------------------------------------------------------------------------
(* Spec: the file store over repeated turns.                               *)

\* the host applies a patch that carries a file store
FilesPatchApplied == HostApply /\ "files" \in PatchKeys(hout.ret)

\* C21: under repeated turns in which the host applies each files patch
\* and nothing else writes the files, the file channel stabilises and no
\* file's length ever increases from one turn to the next; here the part
\* every turn must obey: a turn that applies a files patch leaves no file
\* longer than it was.
C21_FileLengthsNeverIncrease ==
    [][FilesPatchApplied =>
          \A name \in DOMAIN hstate.files :
              /\ name \in DOMAIN hstate'.files
              /\ Len(hstate'.files[name]) <= Len(hstate.files[name])]_vars

====
